---------------------------- MODULE Spec2Model ----------------------------
(***************************************************************************)
(* LLDBPlatformConnectOptionsFactory::Create                               *)
(* (YetiVSI.DebugEngine.LLDBWorker/LLDBPlatformConnectOptionsFactory.cc)   *)
(*                                                                         *)
(*   auto url_string = msclr::interop::marshal_as<std::string>(url);  // 26*)
(*   lldb::SBPlatformConnectOptions shell_command(url_string.c_str());// 27*)
(*   return gcnew LLDBPlatformConnectOptions(shell_command);          // 30*)
(* }                                                                  // 31*)
(*                                                                         *)
(* Each thread of Threads runs one invocation of Create; the steps of      *)
(* different invocations interleave.  Managed text is a sequence of UTF-16 *)
(* code units, native text a sequence of bytes.  The thread's ANSI code    *)
(* page is taken to be Windows-1252.                                       *)
(***************************************************************************)
EXTENDS Integers, Sequences, FiniteSets, TLC

\* Longest locator text explored.
MaxLen == 2

\* The invocations of Create (one per calling thread).
Threads == {"t1", "t2"}

\* UTF-16 code units explored: NUL, 'a', U+20AC (euro sign, byte 0x80 in
\* Windows-1252) and U+4E2D (no Windows-1252 byte).
Chars == {0, 97, 8364, 20013}

VARIABLES
  pc,             \* position of each invocation in Create
  url,            \* the System::String^ argument of each invocation
  url_string,     \* the local std::string of line 26
  shell_command,  \* the local lldb::SBPlatformConnectOptions of line 27 (native id, 0 = not constructed)
  natives,        \* every lldb::SBPlatformConnectOptions ever constructed: contents and release count
  wrapper,        \* the LLDBPlatformConnectOptions each invocation returned
  signal,         \* the exception that left each invocation
  passed,         \* the character array handed to the native constructor by each invocation
  hist            \* the steps each invocation has taken, in order

vars == <<pc, url, url_string, shell_command, natives, wrapper, signal, passed, hist>>

-----------------------------------------------------------------------------
\* System::String^ : a null reference or a sequence of UTF-16 code units.
nullptr == [isNull |-> TRUE, chars |-> <<>>]

String(cs) == [isNull |-> FALSE, chars |-> cs]

SeqsUpTo(n) == UNION {[1..k -> Chars] : k \in 0..n}

Urls == {nullptr} \cup {String(cs) : cs \in SeqsUpTo(MaxLen)}

NoSignal == [kind |-> "none", text |-> nullptr]

NoBuffer == [state |-> "unallocated", bytes |-> <<>>]

NoWrapper == [state |-> "none", native |-> 0]

NotPassed == [called |-> FALSE, bytes |-> <<>>]

-----------------------------------------------------------------------------
\* Windows-1252: the code units that have a byte of their own.
InCodePage(c) == c \in {0, 97, 8364}

\* Windows-1252 byte of a code unit of the code page.
CodePageByte(c) == CASE c = 8364 -> 128 [] OTHER -> c

\* ::WideCharToMultiByte(CP_THREAD_ACP, WC_NO_BEST_FIT_CHARS, p, Length, buf,
\* n, NULL, NULL): every code unit of the text (the length is explicit, so
\* NUL is converted like any other) becomes its byte, and a code unit with no
\* byte in the code page becomes the default character '?' (63); with
\* lpUsedDefaultChar = NULL the substitution is not reported.
RECURSIVE WideCharToMultiByte(_)
WideCharToMultiByte(cs) ==
  IF cs = <<>> THEN <<>>
  ELSE <<IF InCodePage(Head(cs)) THEN CodePageByte(Head(cs)) ELSE 63>>
         \o WideCharToMultiByte(Tail(cs))

\* details::GetAnsiStringSize: the byte count plus one for the terminator;
\* throws when the conversion yields nothing for a non-empty text.
GetAnsiStringSize(str) ==
  LET n == Len(WideCharToMultiByte(str.chars)) IN
    IF n = 0 /\ Len(str.chars) # 0
      THEN [exc |-> "ArgumentException", size |-> 0]
      ELSE [exc |-> "none", size |-> n + 1]

\* details::WriteAnsiString(_buf, _size, _str): converts into the _size
\* bytes at _buf and terminates them; throws when the bytes written do not
\* leave room for the terminator, or when nothing was written for a
\* non-empty text.  buf is the _size bytes at _buf afterwards.
WriteAnsiString(size, str) ==
  LET bytes == WideCharToMultiByte(str.chars)
      written == Len(bytes) IN
    IF written >= size \/ (written = 0 /\ size # 1)
      THEN [exc |-> "ArgumentException", buf |-> <<>>]
      ELSE [exc |-> "none",
            buf |-> [i \in 1..size |->
                      IF i <= written THEN bytes[i] ELSE 0]]

\* marshal_as with the resize one short: the last byte of the text is lost.
marshal_as_ShortResize(from_obj) ==
  IF from_obj.isNull
    THEN [exc |-> "ArgumentNullException", str |-> <<>>]
    ELSE LET sz == GetAnsiStringSize(from_obj) IN
      IF sz.exc # "none" THEN [exc |-> sz.exc, str |-> <<>>]
      ELSE IF sz.size > 1
        THEN [exc |-> "none",
              str |-> SubSeq(WideCharToMultiByte(from_obj.chars), 1, sz.size - 2)]
        ELSE [exc |-> "none", str |-> <<>>]

\* marshal_as without the null check: a null reference is read as empty text.
marshal_as_NoNullCheck(from_obj) ==
  LET sz == GetAnsiStringSize(from_obj) IN
    IF sz.exc # "none" THEN [exc |-> sz.exc, str |-> <<>>]
    ELSE IF sz.size > 1
      THEN [exc |-> "none",
            str |-> SubSeq(WideCharToMultiByte(from_obj.chars), 1, sz.size - 1)]
      ELSE [exc |-> "none", str |-> <<>>]

\* marshal_as that takes a conversion of zero bytes for a failure, whatever
\* the length of the text.
marshal_as_EmptyRejected(from_obj) ==
  IF from_obj.isNull
    THEN [exc |-> "ArgumentNullException", str |-> <<>>]
    ELSE LET n == Len(WideCharToMultiByte(from_obj.chars)) IN
      IF n = 0 THEN [exc |-> "ArgumentException", str |-> <<>>]
      ELSE [exc |-> "none", str |-> WideCharToMultiByte(from_obj.chars)]

\* msclr::interop::marshal_as<std::string>(System::String^) of line 26:
\*   if (_from_obj == nullptr) throw gcnew System::ArgumentNullException(..);
\*   std::string _to_obj;
\*   size_t _size = details::GetAnsiStringSize(_from_obj);
\*   if (_size > 1) { _to_obj.resize(_size-1);
\*                    details::WriteAnsiString(&_to_obj[0], _size, _from_obj); }
\*   return _to_obj;
\* str is the content of the std::string (size() bytes, terminator excluded).
marshal_as(from_obj) ==
  IF from_obj.isNull
    THEN [exc |-> "ArgumentNullException", str |-> <<>>]
    ELSE LET sz == GetAnsiStringSize(from_obj) IN
      IF sz.exc # "none" THEN [exc |-> sz.exc, str |-> <<>>]
      ELSE IF sz.size > 1
        THEN LET w == WriteAnsiString(sz.size, from_obj) IN
          IF w.exc # "none" THEN [exc |-> w.exc, str |-> <<>>]
          ELSE [exc |-> "none", str |-> SubSeq(w.buf, 1, sz.size - 1)]
        ELSE [exc |-> "none", str |-> <<>>]

\* std::string::c_str(): the size() bytes of the content and the terminator.
c_str(s) == s \o <<0>>

\* What a reader of a const char* sees: the bytes up to and including the
\* first zero byte.
RECURSIVE CStrRead(_)
CStrRead(a) ==
  IF a = <<>> THEN <<>>
  ELSE IF Head(a) = 0 THEN <<0>>
  ELSE <<Head(a)>> \o CStrRead(Tail(a))

-----------------------------------------------------------------------------
Init ==
  /\ pc = [t \in Threads |-> "idle"]
  /\ url = [t \in Threads |-> nullptr]
  /\ url_string = [t \in Threads |-> NoBuffer]
  /\ shell_command = [t \in Threads |-> 0]
  /\ natives = <<>>
  /\ wrapper = [t \in Threads |-> NoWrapper]
  /\ signal = [t \in Threads |-> NoSignal]
  /\ passed = [t \in Threads |-> NotPassed]
  /\ hist = [t \in Threads |-> <<>>]

\* A caller enters Create with some locator text (line 25).
Call(t, u) ==
  /\ pc[t] = "idle"
  /\ pc' = [pc EXCEPT ![t] = "marshal"]
  /\ url' = [url EXCEPT ![t] = u]
  /\ hist' = [hist EXCEPT ![t] = <<"Pending">>]
  /\ UNCHANGED <<url_string, shell_command, natives, wrapper, signal, passed>>

\* Stack unwinding and scope exit destroy url_string: its bytes are gone.
Freed == [state |-> "freed", bytes |-> <<>>]

\* ~SBPlatformConnectOptions on native value n.
Release(ns, n) == [ns EXCEPT ![n].releases = @ + 1]

\* Line 26 with one static conversion buffer for all invocations.
Marshal_SharedBuffer(t) ==
  /\ pc[t] = "marshal"
  /\ LET r == marshal_as(url[t]) IN
       IF r.exc # "none"
         THEN /\ pc' = [pc EXCEPT ![t] = "Failed"]
              /\ signal' = [signal EXCEPT ![t] = [kind |-> r.exc, text |-> nullptr]]
              /\ hist' = [hist EXCEPT ![t] = @ \o <<"Failed">>]
              /\ UNCHANGED url_string
         ELSE /\ pc' = [pc EXCEPT ![t] = "ctor"]
              /\ url_string' = [x \in Threads |->
                                 IF x = t \/ url_string[x].state = "live"
                                   THEN [state |-> "live", bytes |-> r.str]
                                   ELSE url_string[x]]
              /\ hist' = [hist EXCEPT ![t] = @ \o <<"bridge">>]
              /\ UNCHANGED signal
  /\ UNCHANGED <<url, shell_command, natives, wrapper, passed>>

\* Line 26 keeping only the c_str() of a temporary: the std::string is
\* destroyed at the end of the statement.
Marshal_Temporary(t) ==
  /\ pc[t] = "marshal"
  /\ LET r == marshal_as(url[t]) IN
       IF r.exc # "none"
         THEN /\ pc' = [pc EXCEPT ![t] = "Failed"]
              /\ signal' = [signal EXCEPT ![t] = [kind |-> r.exc, text |-> nullptr]]
              /\ hist' = [hist EXCEPT ![t] = @ \o <<"Failed">>]
              /\ UNCHANGED url_string
         ELSE /\ pc' = [pc EXCEPT ![t] = "ctor"]
              /\ url_string' = [url_string EXCEPT ![t] = Freed]
              /\ hist' = [hist EXCEPT ![t] = @ \o <<"bridge">>]
              /\ UNCHANGED signal
  /\ UNCHANGED <<url, shell_command, natives, wrapper, passed>>

\* Line 26: auto url_string = msclr::interop::marshal_as<std::string>(url);
\* an exception of marshal_as leaves Create at once (there is no handler and
\* no local has been constructed yet).
Marshal(t) ==
  /\ pc[t] = "marshal"
  /\ LET r == marshal_as(url[t]) IN
       IF r.exc # "none"
         THEN /\ pc' = [pc EXCEPT ![t] = "Failed"]
              /\ signal' = [signal EXCEPT ![t] = [kind |-> r.exc, text |-> nullptr]]
              /\ hist' = [hist EXCEPT ![t] = @ \o <<"Failed">>]
              /\ UNCHANGED url_string
         ELSE /\ pc' = [pc EXCEPT ![t] = "ctor"]
              /\ url_string' = [url_string EXCEPT ![t] = [state |-> "live", bytes |-> r.str]]
              /\ hist' = [hist EXCEPT ![t] = @ \o <<"bridge">>]
              /\ UNCHANGED signal
  /\ UNCHANGED <<url, shell_command, natives, wrapper, passed>>

\* Line 27, entry: url_string.c_str() is handed to the constructor
\* lldb::SBPlatformConnectOptions(const char *url).
CtorCall(t) ==
  /\ pc[t] = "ctor"
  /\ pc' = [pc EXCEPT ![t] = "in_ctor"]
  /\ passed' = [passed EXCEPT ![t] = [called |-> TRUE, bytes |-> c_str(url_string[t].bytes)]]
  /\ hist' = [hist EXCEPT ![t] = @ \o <<"ctor_call">>]
  /\ UNCHANGED <<url, url_string, shell_command, natives, wrapper, signal>>

\* Line 27, normal return: the constructor has copied the C string it was
\* given into a new native value, which is the local shell_command.
CtorReturn(t) ==
  /\ pc[t] = "in_ctor"
  /\ natives' = Append(natives, [m_url |-> CStrRead(passed[t].bytes), releases |-> 0])
  /\ shell_command' = [shell_command EXCEPT ![t] = Len(natives) + 1]
  /\ pc' = [pc EXCEPT ![t] = "gcnew"]
  /\ hist' = [hist EXCEPT ![t] = @ \o <<"ctor_return">>]
  /\ UNCHANGED <<url, url_string, wrapper, signal, passed>>

\* Line 27 with the fault caught and the constructor called again.
CtorThrow_Retry(t) ==
  /\ pc[t] = "in_ctor"
  /\ pc' = [pc EXCEPT ![t] = "ctor"]
  /\ hist' = [hist EXCEPT ![t] = @ \o <<"ctor_throw">>]
  /\ UNCHANGED <<url, url_string, shell_command, natives, wrapper, signal, passed>>

\* Line 27 with the fault caught and a wrapper of an empty native value
\* allocated before the fault is rethrown.
CtorThrow_PartialWrapper(t) ==
  /\ pc[t] = "in_ctor"
  /\ url_string' = [url_string EXCEPT ![t] = Freed]
  /\ wrapper' = [wrapper EXCEPT ![t] = [state |-> "live", native |-> 0]]
  /\ signal' = [signal EXCEPT ![t] = [kind |-> "SEHException", text |-> nullptr]]
  /\ pc' = [pc EXCEPT ![t] = "Failed"]
  /\ hist' = [hist EXCEPT ![t] = @ \o <<"ctor_throw", "Failed">>]
  /\ UNCHANGED <<url, shell_command, natives, passed>>

\* Line 27, fault: the native constructor throws (allocation failure).
\* Create has no handler: the stack unwinds, destroying url_string, and the
\* native exception reaches the managed caller as the runtime presents it, a
\* System::Runtime::InteropServices::SEHException, with nothing added.
CtorThrow(t) ==
  /\ pc[t] = "in_ctor"
  /\ url_string' = [url_string EXCEPT ![t] = Freed]
  /\ signal' = [signal EXCEPT ![t] = [kind |-> "SEHException", text |-> nullptr]]
  /\ pc' = [pc EXCEPT ![t] = "Failed"]
  /\ hist' = [hist EXCEPT ![t] = @ \o <<"ctor_throw", "Failed">>]
  /\ UNCHANGED <<url, shell_command, natives, wrapper, passed>>

\* LLDBPlatformConnectOptions(lldb::SBPlatformConnectOptions): the wrapper
\* holds a native value of its own, copy-constructed from its argument.
WrapperCtor(ns, n) == Append(ns, [m_url |-> ns[n].m_url, releases |-> 0])

\* Line 30 answering a locator seen before with the wrapper made for it.
Gcnew_Cached(t) ==
  /\ pc[t] = "gcnew"
  /\ IF \E o \in Threads \ {t} : wrapper[o].state # "none" /\ url[o] = url[t]
       THEN /\ wrapper' = [wrapper EXCEPT ![t] =
                 wrapper[CHOOSE o \in Threads \ {t} :
                           wrapper[o].state # "none" /\ url[o] = url[t]]]
            /\ UNCHANGED natives
       ELSE /\ natives' = WrapperCtor(natives, shell_command[t])
            /\ wrapper' = [wrapper EXCEPT ![t] = [state |-> "live", native |-> Len(natives) + 1]]
  /\ pc' = [pc EXCEPT ![t] = "exit"]
  /\ hist' = [hist EXCEPT ![t] = @ \o <<"wrapper">>]
  /\ UNCHANGED <<url, url_string, shell_command, signal, passed>>

\* Line 30: gcnew LLDBPlatformConnectOptions(shell_command): a new managed
\* wrapper, constructed from the local shell_command.
Gcnew(t) ==
  /\ pc[t] = "gcnew"
  /\ natives' = WrapperCtor(natives, shell_command[t])
  /\ wrapper' = [wrapper EXCEPT ![t] = [state |-> "live", native |-> Len(natives) + 1]]
  /\ pc' = [pc EXCEPT ![t] = "exit"]
  /\ hist' = [hist EXCEPT ![t] = @ \o <<"wrapper">>]
  /\ UNCHANGED <<url, url_string, shell_command, signal, passed>>

\* Line 31 with shell_command on the heap and never deleted.
ExitScope_Leak(t) ==
  /\ pc[t] = "exit"
  /\ url_string' = [url_string EXCEPT ![t] = Freed]
  /\ shell_command' = [shell_command EXCEPT ![t] = 0]
  /\ pc' = [pc EXCEPT ![t] = "Done"]
  /\ hist' = [hist EXCEPT ![t] = @ \o <<"Done">>]
  /\ UNCHANGED <<url, natives, wrapper, signal, passed>>

\* Line 31: the return leaves the scope: the locals are destroyed in reverse
\* order of construction, shell_command and then url_string, and the caller
\* has the wrapper.
ExitScope(t) ==
  /\ pc[t] = "exit"
  /\ natives' = Release(natives, shell_command[t])
  /\ shell_command' = [shell_command EXCEPT ![t] = 0]
  /\ url_string' = [url_string EXCEPT ![t] = Freed]
  /\ pc' = [pc EXCEPT ![t] = "Done"]
  /\ hist' = [hist EXCEPT ![t] = @ \o <<"Done">>]
  /\ UNCHANGED <<url, wrapper, signal, passed>>

\* The caller drops the wrapper it was returned: the wrapper's teardown
\* releases the native value the wrapper holds.
DestroyWrapper(t) ==
  /\ pc[t] = "Done"
  /\ wrapper[t].state = "live"
  /\ wrapper' = [wrapper EXCEPT ![t].state = "destroyed"]
  /\ natives' = Release(natives, wrapper[t].native)
  /\ UNCHANGED <<pc, url, url_string, shell_command, signal, passed, hist>>

Next ==
  \/ \E t \in Threads, u \in Urls : Call(t, u)
  \/ \E t \in Threads : Marshal(t)
  \/ \E t \in Threads : CtorCall(t)
  \/ \E t \in Threads : CtorReturn(t)
  \/ \E t \in Threads : CtorThrow(t)
  \/ \E t \in Threads : Gcnew(t)
  \/ \E t \in Threads : ExitScope(t)
  \/ \E t \in Threads : DestroyWrapper(t)

Spec == Init /\ [][Next]_vars


-----------------------------------------------------------------------------
\* Vocabulary of the properties.

Ended(t) == pc[t] \in {"Done", "Failed"}

HasEvent(t, e) == \E i \in DOMAIN hist[t] : hist[t][i] = e

\* The native constructor of invocation t faulted.
Faulted(t) == HasEvent(t, "ctor_throw")

\* A locator text every code unit of which has a byte in the native encoding
\* and is not NUL.
Representable(u) ==
  /\ ~u.isNull
  /\ \A i \in DOMAIN u.chars : InCodePage(u.chars[i]) /\ u.chars[i] # 0

\* The exact transcoding of a representable text: the byte of each code unit,
\* in order.
ExactTranscoding(cs) == [i \in DOMAIN cs |-> CodePageByte(cs[i])]

IsPrefix(a, b) == Len(a) <= Len(b) /\ SubSeq(b, 1, Len(a)) = a

HasWrapper(t) == wrapper[t].state # "none"

\* What one invocation of Create does when nothing else runs: lines 26, 27,
\* 30 and 31 in order, with the native constructor faulting or not.
RunAlone(u, fault) ==
  LET r == marshal_as(u) IN
    IF r.exc # "none"
      THEN [status |-> "Failed", signal |-> r.exc, called |-> FALSE, bytes |-> <<>>]
    ELSE IF fault
      THEN [status |-> "Failed", signal |-> "SEHException", called |-> TRUE,
            bytes |-> c_str(r.str)]
    ELSE [status |-> "Done", signal |-> "none", called |-> TRUE, bytes |-> c_str(r.str)]

Outcome(t) ==
  [status |-> pc[t], signal |-> signal[t].kind, called |-> passed[t].called,
   bytes |-> passed[t].bytes]

-----------------------------------------------------------------------------
\* C1: an invocation given a null locator ends Failed with the invalid-argument
\* signal (System::ArgumentNullException), without the native constructor
\* having been called, without a native value and without a wrapper.
C1_AbsentInputFailsFast ==
  \A t \in Threads :
    (url[t].isNull /\ pc[t] \notin {"idle", "marshal"}) =>
      /\ pc[t] = "Failed"
      /\ signal[t].kind = "ArgumentNullException"
      /\ hist[t] = <<"Pending", "Failed">>
      /\ ~passed[t].called
      /\ shell_command[t] = 0
      /\ wrapper[t] = NoWrapper

C1_Witness == \E t \in Threads : url[t].isNull /\ pc[t] = "Failed"

C3_ExactTranscodingPassed ==
  \A t \in Threads :
    (Representable(url[t]) /\ passed[t].called) =>
      /\ passed[t].bytes = ExactTranscoding(url[t].chars) \o <<0>>
      /\ \A i \in 1..(Len(passed[t].bytes) - 1) : passed[t].bytes[i] # 0
      /\ CStrRead(passed[t].bytes) = passed[t].bytes

C3_Witness ==
  \E t \in Threads :
    /\ Representable(url[t])
    /\ Len(url[t].chars) >= 2
    /\ \E i \in DOMAIN url[t].chars : url[t].chars[i] = 8364
    /\ passed[t].called

\* C4 (as claimed): an invocation whose locator holds a code unit with no
\* byte in the native encoding, or an embedded NUL, fails with the encoding
\* error (System::ArgumentException) and never calls the native constructor.
C4_UnrepresentableRejected ==
  \A t \in Threads :
    (~url[t].isNull /\ ~Representable(url[t]) /\ pc[t] \notin {"idle", "marshal"}) =>
      /\ pc[t] = "Failed"
      /\ signal[t].kind = "ArgumentException"
      /\ ~passed[t].called

C6_NoAliasing ==
  \A t1, t2 \in Threads :
    (t1 # t2 /\ ~url[t1].isNull /\ url[t1] = url[t2] /\ HasWrapper(t1) /\ HasWrapper(t2)) =>
      /\ wrapper[t1].native # wrapper[t2].native
      /\ (wrapper[t1].state = "destroyed" /\ wrapper[t2].state = "live") =>
           /\ natives[wrapper[t2].native].releases = 0
           /\ natives[wrapper[t2].native].m_url = CStrRead(passed[t2].bytes)

C6_Witness ==
  \E t1, t2 \in Threads :
    /\ t1 # t2 /\ ~url[t1].isNull /\ url[t1] = url[t2]
    /\ wrapper[t1].state = "destroyed" /\ wrapper[t2].state = "live"

\* C7: under every interleaving, what an invocation hands to the native
\* constructor, the signal it raises and the content of the native value its
\* wrapper owns are those of the same invocation run alone.
C7_Reentrant ==
  \A t \in Threads :
    /\ url_string[t].state = "live" => url_string[t].bytes = marshal_as(url[t]).str
    /\ passed[t].called =>
         passed[t].bytes = RunAlone(url[t], Faulted(t)).bytes
    /\ Ended(t) => Outcome(t) = RunAlone(url[t], Faulted(t))
    /\ HasWrapper(t) =>
         natives[wrapper[t].native].m_url = CStrRead(RunAlone(url[t], FALSE).bytes)

C7_Witness ==
  \E t1, t2 \in Threads :
    /\ pc[t1] = "in_ctor" /\ pc[t2] = "ctor"
    /\ url_string[t1].bytes # url_string[t2].bytes

\* C8: the steps of an invocation are a prefix of Pending-Failed (bridging
\* failed), Pending-bridge-call-throw-Failed or
\* Pending-bridge-call-return-wrapper-Done: nothing follows Done or Failed,
\* the native constructor is called at most once, and the wrapper is created
\* only after the constructor returned.
C8_Lifecycle ==
  \A t \in Threads :
    /\ \/ IsPrefix(hist[t], <<"Pending", "Failed">>)
       \/ IsPrefix(hist[t], <<"Pending", "bridge", "ctor_call", "ctor_throw", "Failed">>)
       \/ IsPrefix(hist[t], <<"Pending", "bridge", "ctor_call", "ctor_return", "wrapper", "Done">>)
    /\ Ended(t) <=> (hist[t] # <<>> /\ hist[t][Len(hist[t])] \in {"Done", "Failed"})
    /\ Ended(t) => hist[t][Len(hist[t])] = pc[t]
    /\ HasWrapper(t) <=> HasEvent(t, "wrapper")
    /\ pc[t] = "Done" => HasWrapper(t) /\ signal[t] = NoSignal
    /\ pc[t] = "Failed" => ~HasWrapper(t) /\ signal[t] # NoSignal

C8_Witness ==
  \E t1, t2 \in Threads :
    /\ hist[t1] = <<"Pending", "bridge", "ctor_call", "ctor_return", "wrapper", "Done">>
    /\ hist[t2] = <<"Pending", "bridge", "ctor_call", "ctor_throw", "Failed">>

\* C9: for the empty locator the bridge does not fail, the native constructor
\* is handed the terminator alone, and unless the native constructor faults
\* the invocation ends Done with a wrapper of a native value of empty content.
C9_EmptyLocator ==
  \A t \in Threads :
    (url[t] = String(<<>>) /\ pc[t] \notin {"idle", "marshal"}) =>
      /\ pc[t] = "Failed" => Faulted(t)
      /\ passed[t].called => passed[t].bytes = <<0>>
      /\ (Ended(t) /\ ~Faulted(t)) =>
           /\ pc[t] = "Done"
           /\ HasWrapper(t)
           /\ natives[wrapper[t].native].m_url = <<0>>

C9_Witness ==
  \E t \in Threads :
    url[t] = String(<<>>) /\ pc[t] = "Done" /\ passed[t].bytes = <<0>>

\* C10: while the native constructor runs, the buffer is live and is the
\* array the constructor was handed; the buffer is released only after the
\* constructor was called; once the invocation has ended, by return or by
\* fault, the buffer is gone, and the wrapper's native value still holds what
\* the constructor read.
C10_TransientBuffer ==
  \A t \in Threads :
    /\ pc[t] = "in_ctor" =>
         /\ url_string[t].state = "live"
         /\ c_str(url_string[t].bytes) = passed[t].bytes
    /\ url_string[t].state = "freed" => HasEvent(t, "ctor_call") /\ pc[t] # "in_ctor"
    /\ Ended(t) => url_string[t].state # "live"
    /\ (pc[t] = "Done" /\ wrapper[t].state = "live") =>
         natives[wrapper[t].native].m_url = CStrRead(passed[t].bytes)

C10_Witness ==
  \E t1, t2 \in Threads :
    /\ pc[t1] = "Done" /\ url_string[t1] = Freed /\ url[t1].chars # <<>>
    /\ pc[t2] = "Failed" /\ Faulted(t2) /\ url_string[t2] = Freed

=============================================================================
